---- MODULE Spec2Model ----
(***************************************************************************)
(* Model of src/assistant.py: the ShreeVoice voice assistant.              *)
(*                                                                         *)
(* A Python str is a sequence of one-character strings (an utterance, a    *)
(* todo item) possibly mixed with multi-character literal fragments (the   *)
(* fixed parts of a reply); the str it stands for is the concatenation of  *)
(* its elements.  Python's None is the sentinel sequence None below.       *)
(***************************************************************************)
EXTENDS Integers, Sequences, FiniteSets, TLC

\* ------------------------------------------------------------------ bounds
MaxTodos == 2
MaxChat == 1
MaxPad == 2

\* ------------------------------------------------------------ str helpers
None == <<"None">>

\* variant: only the empty str counts as no text
TruthyNotEmpty(s) == s # << >>

Truthy(s) == s # None /\ s # << >>

UpperAlpha == << "A", "B", "C", "D", "E", "F", "G", "H", "I", "J", "K", "L", "M",
                 "N", "O", "P", "Q", "R", "S", "T", "U", "V", "W", "X", "Y", "Z" >>

LowerAlpha == << "a", "b", "c", "d", "e", "f", "g", "h", "i", "j", "k", "l", "m",
                 "n", "o", "p", "q", "r", "s", "t", "u", "v", "w", "x", "y", "z" >>

LowerChar(c) ==
    IF \E i \in 1..Len(UpperAlpha) : UpperAlpha[i] = c
    THEN LowerAlpha[CHOOSE i \in 1..Len(UpperAlpha) : UpperAlpha[i] = c]
    ELSE c

\* str.lower()
Lower(s) == [i \in 1..Len(s) |-> LowerChar(s[i])]

IsSpace(c) == c \in {" ", "\t", "\n"}

RECURSIVE LStrip(_)
LStrip(s) == IF s # << >> /\ IsSpace(Head(s)) THEN LStrip(Tail(s)) ELSE s

RECURSIVE RStrip(_)
RStrip(s) ==
    IF s # << >> /\ IsSpace(s[Len(s)]) THEN RStrip(SubSeq(s, 1, Len(s) - 1)) ELSE s

\* str.strip()
Strip(s) == RStrip(LStrip(s))

\* str.startswith(p)
StartsWith(s, p) == Len(s) >= Len(p) /\ SubSeq(s, 1, Len(p)) = p

\* s[k:]
SliceFrom(s, k) == SubSeq(s, k + 1, Len(s))

\* s.replace(a, b) for one-character a
Replace(s, a, b) == [i \in 1..Len(s) |-> IF s[i] = a THEN b ELSE s[i]]

RECURSIVE Flatten(_)
Flatten(ss) == IF ss = << >> THEN << >> ELSE Head(ss) \o Flatten(Tail(ss))

\* sep.join(parts)
RECURSIVE Join(_, _)
Join(sep, parts) ==
    IF parts = << >> THEN << >>
    ELSE IF Len(parts) = 1 THEN parts[1]
    ELSE parts[1] \o sep \o Join(sep, Tail(parts))

Digits == << "0", "1", "2", "3", "4", "5", "6", "7", "8", "9" >>

\* str(n) for n >= 0
RECURSIVE Str(_)
Str(n) == IF n < 10 THEN << Digits[n + 1] >> ELSE Str(n \div 10) \o << Digits[(n % 10) + 1] >>

\* ------------------------------------------------------- JSON persistence
Missing == <<"<no file>">>

HexOf(c) == IF c = "é" THEN << "\\", "u", "0", "0", "e", "9" >> ELSE << c >>

\* json.dumps of one character of a str (ensure_ascii)
EscapeChar(c) ==
    IF c = "\"" THEN << "\\", "\"" >>
    ELSE IF c = "\\" THEN << "\\", "\\" >>
    ELSE HexOf(c)

DumpStr(s) == << "\"" >> \o Flatten([i \in 1..Len(s) |-> EscapeChar(s[i])]) \o << "\"" >>

KeyItem == << "i", "t", "e", "m" >>
KeyAddedAt == << "a", "d", "d", "e", "d", "_", "a", "t" >>

DumpRecord(r) ==
    << "{" >> \o DumpStr(KeyItem) \o << ":" >> \o DumpStr(r.item) \o << "," >>
        \o DumpStr(KeyAddedAt) \o << ":" >> \o DumpStr(r.added_at) \o << "}" >>

\* json.dumps(data, indent=2); layout whitespace, which json.loads skips, is left out
Dumps(data) ==
    << "[" >> \o Join(<< "," >>, [i \in 1..Len(data) |-> DumpRecord(data[i])]) \o << "]" >>

ParseError == [ok |-> FALSE, val |-> << >>, rest |-> << >>]

\* the characters of a JSON string body up to its closing quote
RECURSIVE ParseChars(_, _)
ParseChars(toks, acc) ==
    IF toks = << >> THEN ParseError
    ELSE IF Head(toks) = "\"" THEN [ok |-> TRUE, val |-> acc, rest |-> Tail(toks)]
    ELSE IF Head(toks) = "\\" THEN
        IF Len(toks) >= 2 /\ toks[2] \in {"\"", "\\"}
        THEN ParseChars(SliceFrom(toks, 2), Append(acc, toks[2]))
        ELSE IF Len(toks) >= 6 /\ SubSeq(toks, 2, 6) = << "u", "0", "0", "e", "9" >>
        THEN ParseChars(SliceFrom(toks, 6), Append(acc, "é"))
        ELSE ParseError
    ELSE ParseChars(Tail(toks), Append(acc, Head(toks)))

ParseStr(toks) ==
    IF toks # << >> /\ Head(toks) = "\"" THEN ParseChars(Tail(toks), << >>) ELSE ParseError

Expect(toks, t) == toks # << >> /\ Head(toks) = t

\* "key": "value"
ParseMember(toks, key) ==
    LET k == ParseStr(toks) IN
    IF ~k.ok \/ k.val # key \/ ~Expect(k.rest, ":") THEN ParseError
    ELSE ParseStr(Tail(k.rest))

ParseRecord(toks) ==
    IF ~Expect(toks, "{") THEN ParseError
    ELSE LET a == ParseMember(Tail(toks), KeyItem) IN
         IF ~a.ok \/ ~Expect(a.rest, ",") THEN ParseError
         ELSE LET b == ParseMember(Tail(a.rest), KeyAddedAt) IN
              IF ~b.ok \/ ~Expect(b.rest, "}") THEN ParseError
              ELSE [ok |-> TRUE, val |-> [item |-> a.val, added_at |-> b.val],
                    rest |-> Tail(b.rest)]

RECURSIVE ParseElements(_, _)
ParseElements(toks, acc) ==
    LET r == ParseRecord(toks) IN
    IF ~r.ok THEN ParseError
    ELSE IF Expect(r.rest, ",") THEN ParseElements(Tail(r.rest), Append(acc, r.val))
    ELSE IF Expect(r.rest, "]") THEN [ok |-> TRUE, val |-> Append(acc, r.val), rest |-> Tail(r.rest)]
    ELSE ParseError

\* json.loads of a document of the shape save_json writes; anything else raises
Loads(toks) ==
    IF ~Expect(toks, "[") THEN ParseError
    ELSE LET r == IF Expect(Tail(toks), "]")
                  THEN [ok |-> TRUE, val |-> << >>, rest |-> SliceFrom(toks, 2)]
                  ELSE ParseElements(Tail(toks), << >>) IN
         IF r.ok /\ r.rest = << >> THEN r ELSE ParseError

load_json(file, default) ==
    IF file # Missing
    THEN IF Loads(file).ok THEN Loads(file).val ELSE default
    ELSE default

\* ------------------------------------------------------------ fixed texts
Greeting == << "Hello! I'm your assistant. You can just start talking to me." >>
Notice == << "Speech recognition isn't available." >>
Farewell == << "Goodbye! Have a great day!" >>
HelloReply == << "Hello! How are you today?" >>
EmptyMsg == << "Your todo list is empty." >>
NotFoundMsg == << "I couldn't find anything on Wikipedia." >>
\* the source spells the apostrophe of the apology U+2019
Apology == << "Sorry, I couldn't find an answer." >>

\* variant: "goodbye" left out of the exit phrases
ExitPhrasesNoGoodbye == { << "e", "x", "i", "t" >>, << "q", "u", "i", "t" >>, << "s", "t", "o", "p" >> }

ExitPhrases == { << "e", "x", "i", "t" >>, << "q", "u", "i", "t" >>, << "s", "t", "o", "p" >>, << "g", "o", "o", "d", "b", "y", "e" >> }
Greetings == { << "h", "i" >>, << "h", "e", "l", "l", "o" >>, << "h", "e", "y" >> }
ListCommands == { << "l", "i", "s", "t", " ", "t", "o", "d", "o" >>, << "s", "h", "o", "w", " ", "t", "o", "d", "o" >>, << "t", "o", "d", "o", "s" >> }
OpenPrefix == << "o", "p", "e", "n", " " >>
AddTodoPrefix == << "a", "d", "d", " ", "t", "o", "d", "o", " " >>

Shortcuts == { <<<< "y", "o", "u", "t", "u", "b", "e" >>, << "https://www.youtube.com" >> >>,
               <<<< "g", "o", "o", "g", "l", "e" >>, << "https://www.google.com" >> >>,
               <<<< "g", "i", "t", "h", "u", "b" >>, << "https://github.com" >> >> }

\* --------------------------------------------------- inputs of the model
Pad(n) == [i \in 1..n |-> " "]

\* what the recognizer returns: the commands as spoken, an exit and a list command
\* also after leading blanks, and some texts with blanks elsewhere
Plain == { << "q", "u", "i", "t", " " >>, << "S", "T", "O", "P" >>, << "g", "o", "o", "d", "b", "y", "e" >>,
           << "H", "e", "l", "l", "o" >>, << "o", "p", "e", "n", " ", "Y", "o", "u", "T", "u", "b", "e" >>,
           << "o", "p", "e", "n", " ", "m", "y", " ", "s", "i", "t", "e" >>,
           << "S", "h", "o", "w", " ", "T", "o", "d", "o" >>, << "t", "o", "d", "o", "s" >>,
           << " ", " ", "a", "d", "d", " ", "t", "o", "d", "o", " ", "C", "a", "f", "é", " " >>,
           << "w", "h", "o", " ", "i", "s", " ", "A", "d", "a" >>,
           << "A", "d", "d", " ", "T", "o", "d", "o", " ", "C", "a", "f", "é" >> }

Padded == { << "E", "x", "i", "t" >>, << "l", "i", "s", "t", " ", "t", "o", "d", "o" >> }

Utterances == Plain \cup { Pad(n) \o b : n \in 0..MaxPad, b \in Padded }

\* a chat completion's message content, and what the lookup can produce
ChatContent == << " ", "Ada Lovelace was a mathematician.", "\n" >>
Summary == << "Ada Lovelace wrote the first program. She worked with Babbage." >>
Options == << << "Ada (name)" >>, << "Ada (language)" >>, << "Ada, Ohio" >>,
              << "Ada County" >>, << "Ada (film)" >>, << "Ada Bridge" >> >>
ApiKey == << "sk-test" >>

\* ------------------------------------------------------------------ state
VARIABLES
    pc,            \* where run() is
    listener,      \* self.listener is not None
    enabled,       \* speaker.enabled
    openai,        \* the openai module was imported
    openai_key,    \* self.openai_key
    wikipedia,     \* the wikipedia module was imported
    running,       \* self.running
    text,          \* run()'s local text
    response,      \* run()'s local response
    todo_list,     \* the module-level todo_list
    file,          \* content of TODO_FILE
    clock,         \* datetime.now()
    chat_history,  \* self.chat_history
    micHeld,       \* the microphone context is entered
    bgTasks,       \* threads started by say(wait=False)
    spoken,        \* texts passed to say() since the last listen() began
    farewells,     \* say(Farewell) calls so far
    opened,        \* url given to webbrowser.open in this cycle
    diag,          \* diagnostics printed in this cycle
    exc            \* the call whose exception left run(), if any

vars == << pc, listener, enabled, openai, openai_key, wikipedia, running, text, response,
           todo_list, file, clock, chat_history, micHeld, bgTasks, spoken, farewells,
           opened, diag, exc >>

config == << listener, enabled, openai, openai_key, wikipedia >>

\* variant: say() does not wait unless asked to
DefaultWaitFalse == FALSE

\* ------------------------------------------------------------ Speaker.say
DefaultWait == TRUE

\* say(text, wait): the transcript line is always printed; with an engine the text is
\* synthesized, in the caller (wait) or on a new daemon thread; an engine error is
\* printed and swallowed
Say(t, wait) ==
    /\ spoken' = Append(spoken, t)
    /\ farewells' = IF t = Farewell THEN farewells + 1 ELSE farewells
    /\ IF enabled
       THEN \E o \in {"ok", "error"} :
               bgTasks' = IF o = "ok" /\ ~wait THEN bgTasks + 1 ELSE bgTasks
       ELSE bgTasks' = bgTasks

\* ------------------------------------------------------------ persistence
SaveOutcomes(data) ==
    { [kind |-> "ok", n |-> 0], [kind |-> "open_failed", n |-> 0],
      [kind |-> "write_failed", n |-> Len(Dumps(data)) \div 2] }

\* variant: the list is written as it was before the append
save_json_before_append(old, data, o) ==
    IF o.kind = "ok" THEN Dumps(SubSeq(data, 1, Len(data) - 1))
    ELSE IF o.kind = "open_failed" THEN old
    ELSE SubSeq(Dumps(data), 1, o.n)

\* the file after save_json(path, data): write_text truncates the file on opening it
\* and then writes; a failure of either step is printed and swallowed
save_json(old, data, o) ==
    IF o.kind = "ok" THEN Dumps(data)
    ELSE IF o.kind = "open_failed" THEN old
    ELSE SubSeq(Dumps(data), 1, o.n)

\* datetime.now().isoformat()
IsoFormat(t) == << "T" >> \o Str(t)

\* ------------------------------------------------------------ the router
IsExit(t) == Strip(Lower(t)) \in ExitPhrases

handle_command(t) ==
    LET lower == Strip(Lower(t)) IN
    IF lower \in Greetings THEN "greeting"
    ELSE IF StartsWith(lower, OpenPrefix) THEN "open"
    ELSE IF StartsWith(lower, AddTodoPrefix) THEN "add_todo"
    ELSE IF lower \in ListCommands THEN "list_todo"
    ELSE "answer_with_ai"

\* the argument handle_command passes to _open_website and to _add_todo
OpenArg(t) == Strip(SliceFrom(t, 5))
AddTodoArg(t) == Strip(SliceFrom(t, 9))

open_url(target) ==
    IF \E sc \in Shortcuts : sc[1] = Lower(target)
    THEN (CHOOSE sc \in Shortcuts : sc[1] = Lower(target))[2]
    ELSE << "https://www.google.com/search?q=" >> \o Replace(target, " ", "+")

add_todo(list, item, now) == Append(list, [item |-> item, added_at |-> now])

\* variant: the listing is numbered from 0
list_todo_from_zero(list) ==
    IF list = << >> THEN EmptyMsg
    ELSE << "Here are your todos: " >>
            \o Join(<< "; " >>, [i \in 1..Len(list) |-> Str(i - 1) \o << ". " >> \o list[i].item])

list_todo(list) ==
    IF list = << >> THEN EmptyMsg
    ELSE << "Here are your todos: " >>
            \o Join(<< "; " >>, [i \in 1..Len(list) |-> Str(i) \o << ". " >> \o list[i].item])

ChatAvailable == openai /\ Truthy(openai_key)

ChatOutcomes == { [kind |-> "ok", content |-> ChatContent], [kind |-> "error", content |-> << >>] }
WikiOutcomes == { "summary", "disambiguation", "page_error", "error" }

Turn(role, content) == [role |-> role, content |-> content]

Min(a, b) == IF a < b THEN a ELSE b

Raised(by) == [raised |-> by, reply |-> None]
Returned(reply) == [raised |-> "none", reply |-> reply]

\* variant: no catch-all around the lookup
wiki_answer_uncaught(avail, w) ==
    IF avail /\ w = "summary" THEN Returned(Summary)
    ELSE IF avail /\ w = "disambiguation"
    THEN Returned(<< "Your query is ambiguous. Try one of these: " >>
                     \o Join(<< ", " >>, SubSeq(Options, 1, Min(5, Len(Options)))))
    ELSE IF avail /\ w = "page_error" THEN Returned(NotFoundMsg)
    ELSE IF avail THEN Raised("wikipedia.summary")
    ELSE Returned(Apology)

\* line 176-186: the lookup and the apology after it
wiki_answer(avail, w) ==
    IF avail /\ w = "summary" THEN Returned(Summary)
    ELSE IF avail /\ w = "disambiguation"
    THEN Returned(<< "Your query is ambiguous. Try one of these: " >>
                     \o Join(<< ", " >>, SubSeq(Options, 1, Min(5, Len(Options)))))
    ELSE IF avail /\ w = "page_error" THEN Returned(NotFoundMsg)
    ELSE Returned(Apology)

\* variant: a failed chat call takes the user turn back out of the history
answer_with_ai_rollback(prompt, history, chat, c, wiki, w) ==
    IF chat
    THEN LET asked == Append(history, Turn("user", prompt)) IN
         IF c.kind = "ok"
         THEN LET reply == Strip(c.content) IN
              [out |-> Returned(reply), history |-> Append(asked, Turn("assistant", reply)),
               diag |-> {}]
         ELSE [out |-> wiki_answer(wiki, w), history |-> history, diag |-> {"OpenAI error"}]
    ELSE [out |-> wiki_answer(wiki, w), history |-> history, diag |-> {}]

\* _answer_with_ai(prompt): what it returns or raises, the history it leaves and
\* what it prints
answer_with_ai(prompt, history, chat, c, wiki, w) ==
    IF chat
    THEN LET asked == Append(history, Turn("user", prompt)) IN
         IF c.kind = "ok"
         THEN LET reply == Strip(c.content) IN
              [out |-> Returned(reply), history |-> Append(asked, Turn("assistant", reply)),
               diag |-> {}]
         ELSE [out |-> wiki_answer(wiki, w), history |-> asked, diag |-> {"OpenAI error"}]
    ELSE [out |-> wiki_answer(wiki, w), history |-> history, diag |-> {}]

\* ------------------------------------------------------------------ Init
Record0 == [item |-> << "t", "e", "a" >>, added_at |-> IsoFormat(0)]

\* TODO_FILE before the process starts: absent, cut short by an earlier failed write,
\* or a saved list
InitialFiles == { Missing, SubSeq(Dumps(<< Record0 >>), 1, 5), Dumps(<< Record0 >>) }

Init ==
    /\ pc = "start"
    /\ listener \in BOOLEAN
    /\ enabled \in BOOLEAN
    /\ openai \in BOOLEAN
    /\ openai_key \in {None, ApiKey}
    /\ wikipedia \in BOOLEAN
    /\ running = TRUE
    /\ text = None
    /\ response = None
    /\ file \in InitialFiles
    /\ todo_list = load_json(file, << >>)
    /\ clock = 1
    /\ chat_history = << >>
    /\ micHeld = FALSE
    /\ bgTasks = 0
    /\ spoken = << >>
    /\ farewells = 0
    /\ opened = None
    /\ diag = {}
    /\ exc = "none"

\* ------------------------------------------------------------------- run()
\* line 189-190
Greet ==
    /\ pc = "start"
    /\ Say(Greeting, DefaultWait)
    /\ pc' = IF listener THEN "loop" ELSE "unavailable"
    /\ UNCHANGED << config, running, text, response, todo_list, file, clock, chat_history,
                    micHeld, opened, diag, exc >>

\* variant: no return after the notice
UnavailableNoReturn ==
    /\ pc = "unavailable"
    /\ Say(Notice, DefaultWait)
    /\ pc' = "loop"
    /\ UNCHANGED << config, running, text, response, todo_list, file, clock, chat_history,
                    micHeld, opened, diag, exc >>

\* line 191-192
Unavailable ==
    /\ pc = "unavailable"
    /\ Say(Notice, DefaultWait)
    /\ pc' = "done"
    /\ UNCHANGED << config, running, text, response, todo_list, file, clock, chat_history,
                    micHeld, opened, diag, exc >>

\* line 194-195, 87-88: the loop test and listen() entering the microphone context.
\* The locals text and response are dead here (each is assigned before it is read
\* again), and the per-cycle records start afresh
ListenEnter ==
    /\ pc = "loop"
    /\ running
    /\ micHeld' = TRUE
    /\ text' = None
    /\ response' = None
    /\ spoken' = << >>
    /\ diag' = {}
    /\ opened' = None
    /\ pc' = "capture"
    /\ UNCHANGED << config, running, todo_list, file, clock, chat_history,
                    bgTasks, farewells, exc >>

\* line 89-96: calibration (its errors are passed over) and recognizer.listen; the
\* microphone context is left on every way out of the with block
Capture ==
    /\ pc = "capture"
    /\ micHeld' = FALSE
    /\ \E o \in {"audio", "timeout", "error"} :
          /\ pc' = CASE o = "audio" -> "recognize"
                     [] o = "timeout" -> "got"
                     [] OTHER -> "raised"
          /\ exc' = IF o = "error" THEN "recognizer.listen" ELSE exc
    /\ text' = None
    /\ UNCHANGED << config, running, response, todo_list, file, clock, chat_history,
                    bgTasks, spoken, farewells, opened, diag >>

\* the texts the recognizer is given to return: the caps of the model stop the todo
\* list and the chat history from growing without end
AddTodoUtterances == { u \in Utterances : ~IsExit(u) /\ handle_command(u) = "add_todo" }
AnswerUtterances == { u \in Utterances : ~IsExit(u) /\ handle_command(u) = "answer_with_ai" }

Hearable ==
    ((Utterances \cup { << >> }) \ (AddTodoUtterances \cup AnswerUtterances))
        \cup (IF Len(todo_list) < MaxTodos THEN AddTodoUtterances ELSE {})
        \cup (IF ChatAvailable => Len(chat_history) < 2 * MaxChat THEN AnswerUtterances ELSE {})

RecognizeOutcomes ==
    { [kind |-> "text", text |-> u] : u \in Hearable }
        \cup { [kind |-> k, text |-> None] : k \in {"unknown", "request_error"} }

\* line 97-105: recognize_google returns the text, or raises UnknownValueError or
\* RequestError, which listen() turns into None
Recognize ==
    /\ pc = "recognize"
    /\ \E o \in RecognizeOutcomes :
          /\ text' = o.text
          /\ diag' = IF o.kind = "request_error" THEN diag \cup {"Speech API error"} ELSE diag
    /\ pc' = "got"
    /\ UNCHANGED << config, running, response, todo_list, file, clock, chat_history,
                    micHeld, bgTasks, spoken, farewells, opened, exc >>

\* line 196-197
NoInput ==
    /\ pc = "got"
    /\ ~Truthy(text)
    /\ pc' = "loop"
    /\ UNCHANGED << config, running, text, response, todo_list, file, clock, chat_history,
                    micHeld, bgTasks, spoken, farewells, opened, diag, exc >>

\* line 198-201
ExitPhrase ==
    /\ pc = "got"
    /\ Truthy(text)
    /\ IsExit(text)
    /\ Say(Farewell, DefaultWait)
    /\ running' = FALSE
    /\ pc' = "done"
    /\ UNCHANGED << config, text, response, todo_list, file, clock, chat_history,
                    micHeld, opened, diag, exc >>

Routed(branch) ==
    /\ pc = "got"
    /\ Truthy(text)
    /\ ~IsExit(text)
    /\ handle_command(text) = branch

\* line 128-129
HandleGreeting ==
    /\ Routed("greeting")
    /\ response' = HelloReply
    /\ pc' = "say"
    /\ UNCHANGED << config, running, text, todo_list, file, clock, chat_history,
                    micHeld, bgTasks, spoken, farewells, opened, diag, exc >>

\* line 130-131, 140-148
HandleOpen ==
    /\ Routed("open")
    /\ opened' = open_url(OpenArg(text))
    /\ \E o \in {"opened", "not_opened", "error"} :
          IF o = "error"
          THEN /\ pc' = "raised"
               /\ exc' = "webbrowser.open"
               /\ response' = response
          ELSE /\ pc' = "say"
               /\ exc' = exc
               /\ response' = << "Opening " >> \o OpenArg(text)
    /\ UNCHANGED << config, running, text, todo_list, file, clock, chat_history,
                    micHeld, bgTasks, spoken, farewells, diag >>

\* line 132-133, 150-153
HandleAddTodo ==
    /\ Routed("add_todo")
    /\ todo_list' = add_todo(todo_list, AddTodoArg(text), IsoFormat(clock))
    /\ clock' = clock + 1
    /\ \E o \in SaveOutcomes(todo_list') :
          /\ file' = save_json(file, todo_list', o)
          /\ diag' = IF o.kind = "ok" THEN diag ELSE diag \cup {"Error saving"}
    /\ response' = << "Added to your todo list: " >> \o AddTodoArg(text)
    /\ pc' = "say"
    /\ UNCHANGED << config, running, text, chat_history, micHeld, bgTasks, spoken,
                    farewells, opened, exc >>

\* line 134-135, 155-158
HandleListTodo ==
    /\ Routed("list_todo")
    /\ response' = list_todo(todo_list)
    /\ pc' = "say"
    /\ UNCHANGED << config, running, text, todo_list, file, clock, chat_history,
                    micHeld, bgTasks, spoken, farewells, opened, diag, exc >>

\* line 138, 160-186
HandleAnswer ==
    /\ Routed("answer_with_ai")
    /\ \E c \in ChatOutcomes, w \in WikiOutcomes :
          LET a == answer_with_ai(text, chat_history, ChatAvailable, c, wikipedia, w) IN
          /\ response' = a.out.reply
          /\ chat_history' = a.history
          /\ diag' = diag \cup a.diag
          /\ pc' = IF a.out.raised = "none" THEN "say" ELSE "raised"
          /\ exc' = IF a.out.raised = "none" THEN exc ELSE a.out.raised
    /\ UNCHANGED << config, running, text, todo_list, file, clock, micHeld, bgTasks,
                    spoken, farewells, opened >>

\* line 203
SpeakResponse ==
    /\ pc = "say"
    /\ Say(response, DefaultWait)
    /\ pc' = "loop"
    /\ UNCHANGED << config, running, text, response, todo_list, file, clock, chat_history,
                    micHeld, opened, diag, exc >>

Next ==
    \/ Greet
    \/ Unavailable
    \/ ListenEnter
    \/ Capture
    \/ Recognize
    \/ NoInput
    \/ ExitPhrase
    \/ HandleGreeting
    \/ HandleOpen
    \/ HandleAddTodo
    \/ HandleListTodo
    \/ HandleAnswer
    \/ SpeakResponse

Spec == Init /\ [][Next]_vars

\* ================================================================== claims
IsPrefix(a, b) == Len(a) <= Len(b) /\ SubSeq(b, 1, Len(a)) = a

Last(q) == q[Len(q)]

\* the lower-cased, trimmed form of an utterance
Normal(t) == Strip(Lower(t))

\* ------------------------------------------------------------------- C1
SpokenExit == { << "e", "x", "i", "t" >>, << "q", "u", "i", "t" >>, << "s", "t", "o", "p" >>, << "g", "o", "o", "d", "b", "y", "e" >> }

HeardExit == pc = "got" /\ text # None /\ Normal(text) \in SpokenExit

\* C1: when listen() has returned a text whose lower-cased, trimmed form is exit, quit,
\* stop or goodbye, the next step of run() speaks the farewell, the only farewell of the
\* run, clears running and ends the loop; once run() has ended nothing more is
\* listened to, routed or said.
C1_ExitTerminates ==
    [][ /\ HeardExit =>
            /\ pc' = "done"
            /\ running' = FALSE
            /\ spoken' = Append(spoken, Farewell)
            /\ farewells = 0 /\ farewells' = 1
            /\ UNCHANGED << todo_list, file, chat_history, response, micHeld, bgTasks >>
        /\ pc = "done" => UNCHANGED vars ]_vars

C1_Witness ==
    /\ pc = "done"
    /\ ~running
    /\ farewells = 1
    /\ spoken = << Farewell >>
    /\ text = << " ", " " >> \o << "E", "x", "i", "t" >>
    /\ Len(todo_list) = MaxTodos
    /\ chat_history # << >>

\* ------------------------------------------------------------------- C2
ListedOperations ==
    { "recognize_google", "openai.ChatCompletion.create", "wikipedia.summary",
      "webbrowser.open", "save_json" }

\* C2: no failure of the recognition API, the chat API, the knowledge lookup, the
\* browser launch or the file save leaves run(): the loop ends only by an exit phrase.
C2_NoFailureEscapes ==
    /\ exc \notin ListedOperations
    /\ pc = "done" /\ listener => ~running /\ spoken = << Farewell >>

\* ------------------------------------------------------------------- C3
AddTodoReturned == pc \in {"say", "loop"} /\ text # None /\ handle_command(text) = "add_todo"

\* C3 as claimed: once an _add_todo call has returned, the todo file as load_json
\* reads it equals the todo list in memory.
C3_DiskEqualsMemory ==
    clock > 1 => load_json(file, << >>) = todo_list

\* C3 amended: after an _add_todo call whose save did not fail (no "Error saving"
\* line was printed), the todo file holds the dump of the todo list in memory and
\* load_json reads the same list back from it.
C3_DiskEqualsMemoryAfterSave ==
    AddTodoReturned /\ "Error saving" \notin diag =>
        /\ file = Dumps(todo_list)
        /\ load_json(file, << >>) = todo_list

C3_Witness ==
    /\ AddTodoReturned
    /\ "Error saving" \notin diag
    /\ Len(todo_list) = 2
    /\ \E i \in 1..Len(Last(todo_list).item) : Last(todo_list).item[i] = "é"
    /\ load_json(file, << >>) = todo_list

\* ------------------------------------------------------------------- C4
AddTodoText(t) == Strip(SliceFrom(Strip(t), 9))

HeardAddTodo == pc = "got" /\ text # None /\ StartsWith(Normal(text), << "a", "d", "d", " ", "t", "o", "d", "o", " " >>)

\* C4: for an utterance whose lower-cased, trimmed form starts with "add todo ", the
\* call of handle_command leaves the todo list one element longer, the earlier
\* elements as they were, and the new last item equal to the text after the prefix,
\* in its original casing.
C4_AddTodoAppendsText ==
    [][ HeardAddTodo =>
            /\ Len(todo_list') = Len(todo_list) + 1
            /\ IsPrefix(todo_list, todo_list')
            /\ Last(todo_list').item = AddTodoText(text) ]_vars

\* ------------------------------------------------------------------- C5
\* C5: a listen() that yields no input changes nothing on its way (nothing said, nothing
\* routed, running, the todo list and the chat history as they were), and the next step
\* of the loop goes back to listening with the same left untouched.
C5_NoInputReloops ==
    [][ /\ pc \in {"capture", "recognize"} =>
            UNCHANGED << running, todo_list, file, chat_history, spoken, response,
                         opened, bgTasks, farewells >>
        /\ pc = "got" /\ text = None =>
            /\ pc' = "loop"
            /\ spoken = << >> /\ response = None /\ opened = None
            /\ UNCHANGED << running, todo_list, file, chat_history, spoken, response,
                            opened, bgTasks, farewells, exc >> ]_vars

C5_Witness ==
    /\ pc = "loop"
    /\ text = None
    /\ "Speech API error" \in diag
    /\ spoken = << >>
    /\ running
    /\ todo_list # << >>

\* ------------------------------------------------------------------- C6
SpokenList == { << "l", "i", "s", "t", " ", "t", "o", "d", "o" >>, << "s", "h", "o", "w", " ", "t", "o", "d", "o" >>, << "t", "o", "d", "o", "s" >> }

RECURSIVE Numbered(_, _)
Numbered(list, k) ==
    IF k > Len(list) THEN << >>
    ELSE (IF k > 1 THEN << "; " >> ELSE << >>)
            \o Str(k) \o << ". " >> \o list[k].item \o Numbered(list, k + 1)

Listing(list) ==
    IF Len(list) = 0 THEN << "Your todo list is empty." >>
    ELSE << "Here are your todos: " >> \o Numbered(list, 1)

HeardList == pc = "got" /\ text # None /\ Normal(text) \in SpokenList

\* C6: a list command returns the empty message when the todo list holds nothing, and
\* otherwise "Here are your todos: " and every item numbered from 1, joined by "; ",
\* in insertion order; it leaves the list as it is, and no step removes, reorders or
\* edits a record of the list.
C6_ListInOrder ==
    [][ /\ IsPrefix(todo_list, todo_list')
        /\ HeardList =>
            /\ pc' = "say"
            /\ response' = Listing(todo_list)
            /\ todo_list' = todo_list ]_vars

C6_Witness ==
    /\ pc = "say"
    /\ Normal(text) \in SpokenList
    /\ Len(todo_list) = 2
    /\ todo_list[1] = Record0
    /\ response = << "Here are your todos: ", "1", ". ", "t", "e", "a", "; ",
                     "2", ". ", "C", "a", "f", "é" >>

\* ------------------------------------------------------------------- C7
ChatReplyText == << "Ada Lovelace was a mathematician." >>
SummaryText == << "Ada Lovelace wrote the first program. She worked with Babbage." >>
AmbiguityText ==
    << "Your query is ambiguous. Try one of these: ", "Ada (name)", ", ", "Ada (language)",
       ", ", "Ada, Ohio", ", ", "Ada County", ", ", "Ada (film)" >>
NotFoundText == << "I couldn't find anything on Wikipedia." >>
ApologyText == << "Sorry, I couldn't find an answer." >>
LookupTexts == { SummaryText, AmbiguityText, NotFoundText }

\* the chat call of the step succeeded: the path is open and no error was printed
ChatSucceeded(open) == open /\ "OpenAI error" \notin diag'

\* C7: _answer_with_ai raises for no prompt and no outcome of its backends; it returns
\* the chat reply when the chat call succeeds, otherwise what the lookup produces, and
\* the apology when the chat path is closed or failed and the lookup is missing or
\* failed otherwise; without credential and without lookup it returns the apology.
C7_AnswerNeverRaises ==
    [][ Routed("answer_with_ai") =>
            LET ok == ChatSucceeded(openai /\ openai_key # None) IN
            /\ pc' = "say"
            /\ exc' = "none"
            /\ ok => response' = ChatReplyText
            /\ ~ok /\ wikipedia => response' \in LookupTexts \cup { ApologyText }
            /\ ~ok /\ ~wikipedia => response' = ApologyText
            /\ response' = ChatReplyText => ok
            /\ response' \in LookupTexts => ~ok /\ wikipedia
            /\ openai_key = None /\ ~wikipedia => response' = ApologyText ]_vars

C7_Witness ==
    /\ pc = "say"
    /\ text # None /\ handle_command(text) = "answer_with_ai"
    /\ openai_key = None
    /\ ~wikipedia
    /\ response = ApologyText

\* ------------------------------------------------------------------- C8
\* C8: without a listener run() says the greeting, then the notice, and ends; it never
\* listens, routes or says the farewell, and the todo list, the todo file and the chat
\* history stay as they were at the start.
C8_NoListenerEnds ==
    ~listener =>
        /\ pc \in {"start", "unavailable", "done"}
        /\ pc = "start" => spoken = << >>
        /\ pc = "unavailable" => spoken = << Greeting >>
        /\ pc = "done" => spoken = << Greeting, Notice >>
        /\ farewells = 0
        /\ ~micHeld
        /\ text = None /\ response = None /\ opened = None
        /\ file \in InitialFiles /\ todo_list = load_json(file, << >>) /\ clock = 1
        /\ chat_history = << >>

C8_Witness ==
    /\ ~listener
    /\ pc = "done"
    /\ spoken = << Greeting, Notice >>
    /\ todo_list = << Record0 >>

\* ------------------------------------------------------------------- C9
HistoryGrows(open) ==
    /\ IsPrefix(chat_history, chat_history')
    /\ ~open => chat_history' = chat_history
    /\ ~Routed("answer_with_ai") => chat_history' = chat_history
    /\ open /\ Routed("answer_with_ai") =>
          LET asked == Append(chat_history, Turn("user", text)) IN
          IF ChatSucceeded(open)
          THEN /\ chat_history' = Append(asked, Turn("assistant", response'))
               /\ response' = ChatReplyText
          ELSE /\ chat_history' = asked
               /\ response' \in LookupTexts \cup { ApologyText }

\* C9 as claimed: with a credential configured each _answer_with_ai call appends the
\* user turn, then on success the assistant reply right after it, and on failure
\* nothing more before it goes on to the lookup; without a credential the history is
\* never touched; the history only ever grows at its end.
C9_HistoryWithCredential == [][ HistoryGrows(openai_key # None) ]_vars

\* C9 amended: the same, with the chat path open only when a credential is configured
\* and the openai module was imported; with either missing the history is never
\* touched.
C9_HistoryWithChatPath == [][ HistoryGrows(openai /\ openai_key # None) ]_vars

C9_Witness ==
    /\ pc = "say"
    /\ openai /\ openai_key # None
    /\ Len(chat_history) = 2
    /\ chat_history[1] = Turn("user", text)
    /\ chat_history[2] = Turn("assistant", response)

\* ------------------------------------------------------------------ C10
\* C10: the microphone is held exactly while listen() is inside its with block, so never
\* while a command is routed or a reply is spoken and not after listen() left by
\* timeout or by an exception; no say() of run() starts a background task.
C10_Sequential ==
    /\ micHeld <=> pc = "capture"
    /\ bgTasks = 0
    /\ pc \in {"got", "say"} => ~micHeld
    /\ pc = "capture" => spoken = << >> /\ response = None

C10_Witness ==
    /\ pc = "raised"
    /\ exc = "recognizer.listen"
    /\ ~micHeld
    /\ enabled

====
